---- MODULE Spec2Model ----
(***************************************************************************)
(* Order execution engine: the order store (Order, OrderStatusHistory,     *)
(* OrderExecution), the BullMQ job queue with its worker, and the order    *)
(* service operations (addOrder, cancelOrder, retryOrder, retryJob).       *)
(* One attempt of processOrder is one step, taken while its job is active; *)
(* the service operations are split at their awaits, so that the worker    *)
(* runs between a check and the write that follows it. Service requests    *)
(* (create, cancel, retry) are issued one at a time. The venues can fail   *)
(* to quote or to execute; the store can fail in the worker's catch block, *)
(* in cancelOrder and in retryOrder; the queue can fail on add.            *)
(*                                                                         *)
(* The WebSocket manager (connections, rooms, heartbeat) and the DEX       *)
(* router (getAllQuotes, findBestRoute) have their own specifications,     *)
(* HubSpec and RouterSpec, over their own variables.                       *)
(***************************************************************************)
EXTENDS Integers, Sequences, FiniteSets, TLC

\* ---------------------------------------------------------------- bounds
MaxOrders == 2        \* order ids that can be created
MaxAttempts == 2      \* MAX_RETRY_ATTEMPTS is drawn from 1..MaxAttempts
MaxConcurrency == 2   \* QUEUE_CONCURRENCY is drawn from 1..MaxConcurrency
MaxFaults == 3        \* venue, store and queue calls that throw, in all
MaxConns == 2         \* WebSocket connections that can be accepted
MaxTopics == 1        \* order ids that clients subscribe to and updates are published for
MaxTicks == 3         \* heartbeat intervals that can pass
MaxClock == 4         \* base backoff delays that can pass on the queue's clock
MaxQuotes == 3        \* quotes in a list handed to simulateOrder and findBestRoute
MaxOutput == 7        \* a quote's estimatedOutput is drawn from 1..MaxOutput

OrderIds == 1..MaxOrders

NULL == "null"

\* prisma enum OrderStatus
OrderStatus == {"PENDING", "ROUTING", "BUILDING", "SUBMITTED", "CONFIRMED", "FAILED"}

\* Error messages that can reach the worker's catch block: the one thrown by
\* findBestRoute, and the provider's error that executeSwap rethrows.
NoQuotesError == "No valid quotes available from any DEX"
ExecutionError == "Swap execution failed"

\* The reason cancelOrder stores.
CancelReason == "Order cancelled by user"

VARIABLES
    attempts,      \* config.order.maxRetryAttempts (defaultJobOptions.attempts)
    concurrency,   \* config.queue.concurrency
    nextId,        \* number of Order rows created so far
    order,         \* Order rows: id -> [status, retryCount, failureReason]
    history,       \* OrderStatusHistory rows of each order, oldest first
    executions,    \* number of OrderExecution rows of each order
    job,           \* the queue's job "order-<id>": [state, attemptsMade]
    inflight,      \* processOrder executions currently running for each order id
    op,            \* position of the service request in progress on each order
    faults,        \* calls that have thrown so far
    published,     \* statuses the worker has published for each order, oldest first
    quoteLogs,     \* DexQuoteLog rows of each order, oldest first: [dex, selectedForExecution]
    failedAt,      \* when the processor last threw on each order's job
    request,       \* body of the last POST /api/orders/execute
    reply,         \* what executeOrder has replied to it so far
    returnvalue,   \* what processOrder last returned for each order's job
    \* WebSocketManager
    connections,     \* keys of the connections map
    connectionInfo,  \* connectionInfo map: id -> [subscribedOrders, lastPing], or NoInfo
    orderRooms,      \* orderRooms map: topic -> set of connection ids
    socket,          \* each connection's socket: unused, open, closing or closed
    nextConn,        \* number of connections accepted so far
    heartbeat,       \* TRUE while the heartbeat interval timer is running
    now,             \* Date.now()
    garbled,         \* a message that was not JSON, under observation: <<connection, time>>, or none
    unsubscribed,    \* an unsubscription under observation: <<connection, topic>>, or none
    lastPub,         \* the last broadcastOrderUpdate call and the sockets it reached
    \* DexRouterService
    adapters,      \* what each provider's getQuote did in the last call
    quotes,        \* what getAllQuotes returned in the last call
    route          \* what findBestRoute returned or threw in the last call

engineVars == <<attempts, concurrency, nextId, order, history, executions, job,
                inflight, op, faults, published, quoteLogs, failedAt,
                request, reply, returnvalue>>

hubVars == <<connections, connectionInfo, orderRooms, socket, nextConn,
             heartbeat, now, garbled, unsubscribed, lastPub>>

routerVars == <<adapters, quotes, route>>

vars == <<engineVars, hubVars, routerVars>>

\* No request received yet, and no reply sent.
NoRequest == [type |-> NULL, tokenIn |-> <<>>, tokenOut |-> <<>>, amountIn |-> 0,
              slippage |-> <<>>]
NoReply == [status |-> 0, code |-> NULL]

\* processOrder has not returned yet.
NoResult == [success |-> FALSE, txHash |-> <<>>, error |-> NULL]

\* A job id the queue does not hold, and an order id without a row yet.
NoJob == [state |-> "none", attemptsMade |-> 0]
NoOrder == [status |-> "NONE", retryCount |-> 0, failureReason |-> NULL]

Exists(o) == o <= nextId

\* ConnectionInfo of an id the connectionInfo map does not hold.
NoInfo == [subscribedOrders |-> {}, lastPing |-> -1]

\* No broadcastOrderUpdate call yet.
NoPub == [orderId |-> -1, sent |-> {}, threw |-> {}, failed |-> FALSE, copies |-> <<>>,
         confirmation |-> <<>>]

ConnIds == 1..MaxConns

\* new WebSocketManager(): empty maps, heartbeat started.
HubInit ==
    /\ connections = {}
    /\ connectionInfo = [c \in ConnIds |-> NoInfo]
    /\ orderRooms = [t \in {} |-> {}]
    /\ socket = [c \in ConnIds |-> "unused"]
    /\ nextConn = 0
    /\ heartbeat = TRUE
    /\ now = 0
    /\ garbled = <<>>
    /\ unsubscribed = <<>>
    /\ lastPub = NoPub

\* new DexRouterService(): no call made yet.
RouterInit ==
    /\ adapters = <<>>
    /\ quotes = <<>>
    /\ route = [kind |-> "none"]

\* The queue, the store and the worker before the first request.
EngineInit ==
    /\ nextId = 0
    /\ order = [o \in OrderIds |-> NoOrder]
    /\ history = [o \in OrderIds |-> <<>>]
    /\ executions = [o \in OrderIds |-> 0]
    /\ job = [o \in OrderIds |-> NoJob]
    /\ inflight = [o \in OrderIds |-> 0]
    /\ op = [o \in OrderIds |-> "none"]
    /\ faults = 0
    /\ published = [o \in OrderIds |-> <<>>]
    /\ quoteLogs = [o \in OrderIds |-> <<>>]
    /\ failedAt = [o \in OrderIds |-> 0]
    /\ request = NoRequest
    /\ reply = NoReply
    /\ returnvalue = [o \in OrderIds |-> NoResult]

Init ==
    /\ attempts \in 1..MaxAttempts
    /\ concurrency \in 1..MaxConcurrency
    /\ EngineInit
    /\ HubInit
    /\ RouterInit

\* ------------------------------------------------------ OrderRepository
\* create: a new row, status PENDING, retryCount 0 and no failureReason.
CreateRow == [status |-> "PENDING", retryCount |-> 0, failureReason |-> NULL]

\* updateStatus, the order.update of the transaction.
UpdateStatusRow(row, s) == [row EXCEPT !.status = s]

\* updateStatus, the orderStatusHistory.create of the same transaction.
UpdateStatusHistory(h, s) == Append(h, s)

\* A variant of incrementRetryCount that leaves the counter as it was.
IncrementRetryCountSkipped(row) == row

\* incrementRetryCount
IncrementRetryCount(row) == [row EXCEPT !.retryCount = @ + 1]

\* A variant of markAsFailed that leaves failureReason as it was.
MarkAsFailedNoReason(row, reason) == [row EXCEPT !.status = "FAILED"]

\* markAsFailed: one order.update, no history row.
MarkAsFailedRow(row, reason) ==
    [row EXCEPT !.status = "FAILED", !.failureReason = reason]

\* The Order row and the history after the updateStatus calls for `statuses`,
\* made one after the other.
RECURSIVE RowAfter(_, _)
RowAfter(row, statuses) ==
    IF statuses = <<>> THEN row
    ELSE RowAfter(UpdateStatusRow(row, Head(statuses)), Tail(statuses))

RECURSIVE HistoryAfter(_, _)
HistoryAfter(h, statuses) ==
    IF statuses = <<>> THEN h
    ELSE HistoryAfter(UpdateStatusHistory(h, Head(statuses)), Tail(statuses))

\* ---------------------------------------------------------------- queue
ActiveJobs == {o \in OrderIds : job[o].state = "active"}

\* The worker takes a job only from the wait list.
Dispatchable(o) == job[o].state = "waiting"

\* A variant of the slot test that lets one job too many start.
SlotFreeOffByOne == Cardinality(ActiveJobs) <= concurrency

\* A slot is free while fewer than `concurrency` jobs are active.
SlotFree == Cardinality(ActiveJobs) < concurrency

\* job.opts.attempts || 1
JobAttempts == IF attempts = 0 THEN 1 ELSE attempts

\* A variant of the last-attempt test that compares strictly.
IsLastAttemptStrict(attemptsMade) == attemptsMade + 1 > JobAttempts

\* if (job.attemptsMade + 1 >= (job.opts.attempts || 1))
IsLastAttempt(attemptsMade) == attemptsMade + 1 >= JobAttempts

\* A variant of the dispatch bookkeeping that leaves the job on the wait list.
JobLeftWaiting(j) == j

\* The worker took the job: the queue moves it from the wait list to active
\* and locks it.
JobActive(j) == [j EXCEPT !.state = "active"]

\* The processor returned: the queue moves the job to completed.
JobCompleted(j) == [j EXCEPT !.state = "completed"]

\* The processor threw: the queue counts the attempt and either schedules the
\* job again after its backoff delay or, attempts exhausted, moves it to failed.
JobThrew(j) ==
    [state |-> IF j.attemptsMade + 1 < JobAttempts THEN "delayed" ELSE "failed",
     attemptsMade |-> j.attemptsMade + 1]

\* ------------------------------------------------- processOrder, one attempt
\* The statuses processOrder sets in its try block, in program order.
TrySteps == <<"ROUTING", "BUILDING", "SUBMITTED", "CONFIRMED">>

\* How the try block can end: it returns, or one of its awaits throws. Each
\* entry gives the number of updateStatus calls that succeeded before and the
\* message of the thrown error.
TryOutcomes ==
    { [done |-> 4, threw |-> FALSE, message |-> NULL],
      [done |-> 1, threw |-> TRUE, message |-> NoQuotesError],     \* findBestRoute
      [done |-> 3, threw |-> TRUE, message |-> ExecutionError] }

\* executeSwap's result: the transaction reference of the order's swap. An
\* absent reference is the empty sequence.
ExecuteSwap(o) == [txHash |-> <<"tx", o>>]

\* A variant of the try block's return value that leaves the reference out.
SuccessResultBare(swapResult) == [success |-> TRUE, txHash |-> <<>>, error |-> NULL]

\* What the try block returns.
SuccessResult(swapResult) ==
    [success |-> TRUE, txHash |-> swapResult.txHash, error |-> NULL]

\* What the catch block returns.
FailureResult(errorMessage) ==
    [success |-> FALSE, txHash |-> <<>>, error |-> errorMessage]

\* How the catch block can end: it returns, or incrementRetryCount throws, or
\* markAsFailed throws. A throw inside the catch block rejects processOrder.
CatchOutcomes == {"returned", "incrementThrew", "markThrew"}

\* The Order row after the catch block.
CatchRow(row, attemptsMade, message, c) ==
    IF c = "incrementThrew" THEN row
    ELSE IF IsLastAttempt(attemptsMade) /\ c = "returned"
         THEN MarkAsFailedRow(IncrementRetryCount(row), message)
         ELSE IncrementRetryCount(row)

\* Calls that threw in an attempt with these outcomes.
FaultsOf(t, c) ==
    (IF t.threw THEN 1 ELSE 0) + (IF t.threw /\ c # "returned" THEN 1 ELSE 0)

\* ------------------------------------------------------------- addOrder
\* A variant of orderQueue.add that replaces a job the queue already holds.
QueueAddReplaces(q, o) ==
    [q EXCEPT ![o] = [state |-> "waiting", attemptsMade |-> 0]]

\* orderQueue.add('process-order', data, {jobId: `order-${order.id}`}): a new
\* waiting job, unless the queue already holds a job with that id.
QueueAdd(q, o) ==
    IF q[o].state = "none"
    THEN [q EXCEPT ![o] = [state |-> "waiting", attemptsMade |-> 0]]
    ELSE q

\* addOrder, first await: orderRepository.create.
AddOrderCreate ==
    /\ nextId < MaxOrders
    /\ \A p \in OrderIds : op[p] = "none"
    /\ nextId' = nextId + 1
    /\ order' = [order EXCEPT ![nextId + 1] = CreateRow]
    /\ op' = [op EXCEPT ![nextId + 1] = "enqueue"]
    /\ UNCHANGED <<attempts, concurrency, history, executions, job, inflight,
                   faults>>
    /\ UNCHANGED <<published, quoteLogs, failedAt, request, reply, returnvalue,
                   hubVars, routerVars>>

\* addOrder, second await: orderQueue.add with jobId order-<id>; a job id the
\* queue already holds is not added again. The add may throw.
AddOrderEnqueue(o) ==
    /\ op[o] = "enqueue"
    /\ op' = [op EXCEPT ![o] = "none"]
    /\ \/ /\ job' = QueueAdd(job, o)
          /\ UNCHANGED faults
       \/ /\ faults < MaxFaults
          /\ faults' = faults + 1
          /\ UNCHANGED job
    /\ UNCHANGED <<attempts, concurrency, nextId, order, history, executions,
                   inflight>>
    /\ UNCHANGED <<published, quoteLogs, failedAt, request, reply, returnvalue,
                   hubVars, routerVars>>

\* --------------------------------------------------------------- worker
\* The worker starts processOrder on a waiting job when a slot is free.
Dispatch(o) ==
    /\ Dispatchable(o)
    /\ SlotFree
    /\ job' = [job EXCEPT ![o] = JobActive(@)]
    /\ inflight' = [inflight EXCEPT ![o] = @ + 1]
    /\ UNCHANGED <<attempts, concurrency, nextId, order, history, executions,
                   op, faults>>
    /\ UNCHANGED <<published, quoteLogs, failedAt, request, reply, returnvalue,
                   hubVars, routerVars>>

\* One attempt of processOrder on an active job, from the first updateStatus to
\* the return or rejection of the processor, and the queue's bookkeeping of it:
\* what the attempt does to the order, its history and its job.
Attempt(o) ==
    /\ job[o].state = "active"
    /\ inflight[o] > 0
    /\ \E t \in TryOutcomes, c \in CatchOutcomes :
         /\ ~t.threw => c = "returned"
         /\ c = "markThrew" => IsLastAttempt(job[o].attemptsMade)
         /\ faults + FaultsOf(t, c) <= MaxFaults
         /\ faults' = faults + FaultsOf(t, c)
         /\ history' = [history EXCEPT
                          ![o] = HistoryAfter(@, SubSeq(TrySteps, 1, t.done))]
         /\ order' = [order EXCEPT
                        ![o] = IF t.threw
                               THEN CatchRow(RowAfter(@, SubSeq(TrySteps, 1, t.done)),
                                             job[o].attemptsMade, t.message, c)
                               ELSE RowAfter(@, SubSeq(TrySteps, 1, t.done))]
         /\ job' = [job EXCEPT ![o] = IF c = "returned" THEN JobCompleted(@)
                                      ELSE JobThrew(@)]
         /\ returnvalue' = [returnvalue EXCEPT
                              ![o] = IF ~t.threw THEN SuccessResult(ExecuteSwap(o))
                                     ELSE IF c = "returned" THEN FailureResult(t.message)
                                     ELSE @]
    /\ inflight' = [inflight EXCEPT ![o] = @ - 1]
    /\ UNCHANGED <<attempts, concurrency, nextId, executions, op>>
    /\ failedAt' = [failedAt EXCEPT ![o] = IF job'[o].state \in {"delayed", "failed"}
                                           THEN now ELSE @]
    /\ UNCHANGED <<published, request, reply, hubVars>>

\* processOrder with the quotes and the quote log left out of the picture.
ProcessOrder(o) ==
    /\ Attempt(o)
    /\ UNCHANGED <<quoteLogs, routerVars>>

\* The backoff delay of a failed attempt has passed: the job waits again.
BackoffElapsed(o) ==
    /\ job[o].state = "delayed"
    /\ job' = [job EXCEPT ![o].state = "waiting"]
    /\ UNCHANGED <<attempts, concurrency, nextId, order, history, executions,
                   inflight, op, faults>>
    /\ UNCHANGED <<published, quoteLogs, failedAt, request, reply, returnvalue,
                   hubVars, routerVars>>

\* retryJob: job.retry() moves a failed job back to the wait list and keeps
\* its attemptsMade; for a job in any other state it throws and retryJob
\* returns false.
RetryJob(o) ==
    /\ job[o].state = "failed"
    /\ job' = [job EXCEPT ![o].state = "waiting"]
    /\ UNCHANGED <<attempts, concurrency, nextId, order, history, executions,
                   inflight, op, faults>>
    /\ UNCHANGED <<published, quoteLogs, failedAt, request, reply, returnvalue,
                   hubVars, routerVars>>

\* ---------------------------------------------------------- cancelOrder
\* cancelOrder, findById: only a PENDING order goes on.
CancelFind(o) ==
    /\ Exists(o)
    /\ \A p \in OrderIds : op[p] = "none"
    /\ order[o].status = "PENDING"
    /\ op' = [op EXCEPT ![o] = "cancelRemove"]
    /\ UNCHANGED <<attempts, concurrency, nextId, order, history, executions,
                   job, inflight, faults>>
    /\ UNCHANGED <<published, quoteLogs, failedAt, request, reply, returnvalue,
                   hubVars, routerVars>>

\* cancelOrder, removeJob: false when the queue has no such job or the job is
\* locked by the worker (job.remove() throws), true once the job is removed.
CancelRemove(o) ==
    /\ op[o] = "cancelRemove"
    /\ IF job[o].state \in {"none", "active"}
       THEN /\ op' = [op EXCEPT ![o] = "none"]
            /\ UNCHANGED job
       ELSE /\ op' = [op EXCEPT ![o] = "cancelMark"]
            /\ job' = [job EXCEPT ![o] = NoJob]
    /\ UNCHANGED <<attempts, concurrency, nextId, order, history, executions,
                   inflight, faults>>
    /\ UNCHANGED <<published, quoteLogs, failedAt, request, reply, returnvalue,
                   hubVars, routerVars>>

\* cancelOrder, markAsFailed(orderId, 'Order cancelled by user').
CancelMark(o) ==
    /\ op[o] = "cancelMark"
    /\ op' = [op EXCEPT ![o] = "none"]
    /\ \/ /\ order' = [order EXCEPT ![o] = MarkAsFailedRow(@, CancelReason)]
          /\ UNCHANGED faults
       \/ /\ faults < MaxFaults
          /\ faults' = faults + 1
          /\ UNCHANGED order
    /\ UNCHANGED <<attempts, concurrency, nextId, history, executions, job,
                   inflight>>
    /\ UNCHANGED <<published, quoteLogs, failedAt, request, reply, returnvalue,
                   hubVars, routerVars>>

\* ----------------------------------------------------------- retryOrder
\* retryOrder, findById: only a FAILED order goes on. (A retry is started only
\* while its addOrder still has an order id to create.)
RetryFind(o) ==
    /\ Exists(o)
    /\ nextId < MaxOrders
    /\ \A p \in OrderIds : op[p] = "none"
    /\ order[o].status = "FAILED"
    /\ op' = [op EXCEPT ![o] = "retryReset"]
    /\ UNCHANGED <<attempts, concurrency, nextId, order, history, executions,
                   job, inflight, faults>>
    /\ UNCHANGED <<published, quoteLogs, failedAt, request, reply, returnvalue,
                   hubVars, routerVars>>

\* retryOrder, updateStatus(PENDING, 'Order retried manually').
RetryReset(o) ==
    /\ op[o] = "retryReset"
    /\ \/ /\ order' = [order EXCEPT ![o] = UpdateStatusRow(@, "PENDING")]
          /\ history' = [history EXCEPT ![o] = UpdateStatusHistory(@, "PENDING")]
          /\ op' = [op EXCEPT ![o] = "retryAdd"]
          /\ UNCHANGED faults
       \/ /\ faults < MaxFaults
          /\ faults' = faults + 1
          /\ op' = [op EXCEPT ![o] = "none"]
          /\ UNCHANGED <<order, history>>
    /\ UNCHANGED <<attempts, concurrency, nextId, executions, job, inflight>>
    /\ UNCHANGED <<published, quoteLogs, failedAt, request, reply, returnvalue,
                   hubVars, routerVars>>

\* retryOrder, queueService.addOrder(...): addOrder creates a new Order row
\* from the old order's fields and enqueues a job for the new id.
RetryAdd(o) ==
    /\ op[o] = "retryAdd"
    /\ nextId' = nextId + 1
    /\ order' = [order EXCEPT ![nextId + 1] = CreateRow]
    /\ op' = [op EXCEPT ![o] = "none", ![nextId + 1] = "enqueue"]
    /\ UNCHANGED <<attempts, concurrency, history, executions, job, inflight,
                   faults>>
    /\ UNCHANGED <<published, quoteLogs, failedAt, request, reply, returnvalue,
                   hubVars, routerVars>>

\* ------------------------------------------------------ WebSocketManager
\* HEARTBEAT_INTERVAL and CONNECTION_TIMEOUT, in milliseconds.
HEARTBEAT_INTERVAL == 30000
CONNECTION_TIMEOUT == 60000

\* Topics a client can name in a subscribe message: an order id, or the
\* wildcard '*' (written 0 here).
Wildcard == 0
OrderTopics == 1..MaxTopics
Topics == OrderTopics \cup {Wildcard}

\* The manager's maps and the sockets, as one value.
Hub ==
    [connections |-> connections, connectionInfo |-> connectionInfo,
     orderRooms |-> orderRooms, socket |-> socket]

\* The members of a topic's room; a topic without a room has none.
Room(rooms, t) == IF t \in DOMAIN rooms THEN rooms[t] ELSE {}

\* handleSubscribe: create the room if there is none, then add the connection.
RoomAdd(rooms, t, c) ==
    [x \in DOMAIN rooms \cup {t} |-> IF x = t THEN Room(rooms, t) \cup {c}
                                       ELSE rooms[x]]

\* A variant of the deletion that keeps a room that has become empty.
RoomDeleteKeepsEmpty(rooms, t, c) ==
    IF t \notin DOMAIN rooms THEN rooms
    ELSE [rooms EXCEPT ![t] = @ \ {c}]

\* handleUnsubscribe / handleDisconnect: delete the connection from the room
\* and delete the room once it is empty.
RoomDelete(rooms, t, c) ==
    IF t \notin DOMAIN rooms THEN rooms
    ELSE IF rooms[t] \ {c} = {}
         THEN [x \in DOMAIN rooms \ {t} |-> rooms[x]]
         ELSE [rooms EXCEPT ![t] = @ \ {c}]

\* socket.close(): an open socket starts closing; its close event comes later.
SocketClose(st) == IF st = "open" THEN "closing" ELSE st

\* A variant of handleSubscribe that leaves the connection's own
\* subscription set as it was.
HandleSubscribeRoomOnly(h, c, t) ==
    IF h.connectionInfo[c] = NoInfo THEN h
    ELSE [h EXCEPT !.orderRooms = RoomAdd(@, t, c)]

\* handleSubscribe
HandleSubscribe(h, c, t) ==
    IF h.connectionInfo[c] = NoInfo THEN h
    ELSE [h EXCEPT !.orderRooms = RoomAdd(@, t, c),
                   !.connectionInfo[c].subscribedOrders = @ \cup {t}]

\* A variant of handleUnsubscribe that leaves the connection in the room.
HandleUnsubscribeKeepsRoom(h, c, t) ==
    IF h.connectionInfo[c] = NoInfo THEN h
    ELSE [h EXCEPT !.connectionInfo[c].subscribedOrders = @ \ {t}]

\* handleUnsubscribe
HandleUnsubscribe(h, c, t) ==
    IF h.connectionInfo[c] = NoInfo THEN h
    ELSE [h EXCEPT !.orderRooms = RoomDelete(@, t, c),
                   !.connectionInfo[c].subscribedOrders = @ \ {t}]

\* handleDisconnect, the forEach over info.subscribedOrders.
RECURSIVE LeaveRooms(_, _, _)
LeaveRooms(rooms, topics, c) ==
    IF topics = {} THEN rooms
    ELSE LET t == CHOOSE x \in topics : TRUE
         IN LeaveRooms(RoomDelete(rooms, t, c), topics \ {t}, c)

\* A variant of handleDisconnect that leaves the connection in its rooms.
HandleDisconnectKeepsRooms(h, c) ==
    [h EXCEPT !.connections = @ \ {c},
              !.connectionInfo[c] = NoInfo]

\* handleDisconnect
HandleDisconnect(h, c) ==
    [h EXCEPT !.orderRooms = LeaveRooms(@, h.connectionInfo[c].subscribedOrders, c),
              !.connections = @ \ {c},
              !.connectionInfo[c] = NoInfo]

\* closeConnection
CloseConnection(h, c) ==
    HandleDisconnect(
        IF c \in h.connections THEN [h EXCEPT !.socket[c] = SocketClose(@)] ELSE h,
        c)

\* The messages a client can send: text that is not JSON, subscribe and
\* unsubscribe for a topic, ping, and JSON of an unknown type.
Messages ==
    { [type |-> ty, orderId |-> -1] : ty \in {"malformed", "ping", "other"} }
    \cup { [type |-> ty, orderId |-> t] : ty \in {"subscribe", "unsubscribe"},
                                         t \in Topics }

\* handleMessage at time `at`.
HandleMessageHub(h, c, m, at) ==
    IF m.type = "malformed" \/ h.connectionInfo[c] = NoInfo THEN h
    ELSE LET seen == [h EXCEPT !.connectionInfo[c].lastPing = at]
         IN CASE m.type = "subscribe" -> HandleSubscribe(seen, c, m.orderId)
              [] m.type = "unsubscribe" -> HandleUnsubscribe(seen, c, m.orderId)
              [] OTHER -> seen

\* A variant of sendMessage that lets the exception of socket.send escape.
SendMessageUncaught(h, c, throwers) ==
    IF c \notin h.connections \/ h.socket[c] # "open" THEN "skipped"
    ELSE IF c \in throwers THEN "thrown"
    ELSE "sent"

\* sendMessage: nothing for an unknown connection or a socket that is not
\* open; an exception of socket.send is caught and logged.
SendMessage(h, c, throwers) ==
    IF c \notin h.connections \/ h.socket[c] # "open" THEN "skipped"
    ELSE IF c \in throwers THEN "caught"
    ELSE "sent"

\* broadcastOrderUpdate, the forEach over the room: `pub` collects the sockets
\* reached, those whose send threw, and the copies sent, one entry per
\* socket.send that returned; an exception that escapes sendMessage ends the
\* loop and the call.
RECURSIVE SendToRoom(_, _, _, _)
SendToRoom(h, ids, throwers, pub) ==
    IF ids = {} THEN pub
    ELSE LET c == CHOOSE x \in ids : \A y \in ids : x <= y
             r == SendMessage(h, c, throwers)
         IN IF r = "thrown"
            THEN [pub EXCEPT !.threw = @ \cup {c}, !.failed = TRUE]
            ELSE SendToRoom(h, ids \ {c}, throwers,
                            [pub EXCEPT !.sent = IF r = "sent" THEN @ \cup {c} ELSE @,
                                        !.copies = IF r = "sent" THEN Append(@, c) ELSE @,
                                        !.threw = IF r = "caught" THEN @ \cup {c} ELSE @])

\* A variant of broadcastOrderUpdate that goes through the room of the order
\* id and then through the room of the wildcard topic.
BroadcastToOrderAndWildcard(h, o, throwers) ==
    SendToRoom(h, Room(h.orderRooms, Wildcard), throwers,
               SendToRoom(h, Room(h.orderRooms, o), throwers,
                          [orderId |-> o, sent |-> {}, threw |-> {}, failed |-> FALSE,
                           copies |-> <<>>, confirmation |-> <<>>]))

\* broadcastOrderUpdate(orderId, update): the room of that order id only.
BroadcastOrderUpdateHub(h, o, throwers) ==
    SendToRoom(h, Room(h.orderRooms, o), throwers,
               [orderId |-> o, sent |-> {}, threw |-> {}, failed |-> FALSE,
                copies |-> <<>>, confirmation |-> <<>>])

\* The heartbeat callback at time `at`: closeConnection for every connection
\* whose lastPing is more than CONNECTION_TIMEOUT back.
RECURSIVE SweepConnections(_, _, _)
SweepConnections(h, ids, at) ==
    IF ids = {} THEN h
    ELSE LET c == CHOOSE x \in ids : TRUE
         IN SweepConnections(
                IF at - h.connectionInfo[c].lastPing > CONNECTION_TIMEOUT
                THEN CloseConnection(h, c) ELSE h,
                ids \ {c}, at)

\* Keys of the connectionInfo map.
InfoKeys(h) == {c \in ConnIds : h.connectionInfo[c] # NoInfo}

\* A variant of shutdown that forgets to clear the rooms.
ShutdownKeepsRooms(h) ==
    [h EXCEPT !.socket = [c \in ConnIds |->
                            IF c \in h.connections THEN SocketClose(h.socket[c])
                            ELSE h.socket[c]],
              !.connections = {},
              !.connectionInfo = [c \in ConnIds |-> NoInfo]]

\* shutdown: close every socket of the connections map, clear the three maps.
ShutdownHub(h) ==
    [h EXCEPT !.socket = [c \in ConnIds |->
                            IF c \in h.connections THEN SocketClose(h.socket[c])
                            ELSE h.socket[c]],
              !.connections = {},
              !.connectionInfo = [c \in ConnIds |-> NoInfo],
              !.orderRooms = [t \in {} |-> {}]]

\* The unsubscription under observation. When connection c sends message m:
\* an unsubscribe it handles may become the one observed, and a subscribe of
\* the same connection to the same topic ends the observation.
Unsubscribing(c, m) ==
    IF connectionInfo[c] = NoInfo THEN {unsubscribed}
    ELSE IF m.type = "unsubscribe" THEN {unsubscribed, <<c, m.orderId>>}
    ELSE IF m.type = "subscribe" /\ unsubscribed = <<c, m.orderId>> THEN {<<>>}
    ELSE {unsubscribed}

\* The message that was not JSON under observation. When connection c sends
\* message m: a message that is not JSON may become the one observed, and a
\* later message of the same connection that is handled ends the observation.
Garbling(c, m) ==
    IF connectionInfo[c] = NoInfo THEN {garbled}
    ELSE IF m.type = "malformed" THEN {garbled, <<c, now>>}
    ELSE IF garbled # <<>> /\ garbled[1] = c THEN {<<>>}
    ELSE {garbled}

\* An observation ends when the manager forgets the connection.
GarbledKnown(h) ==
    IF garbled # <<>> /\ h.connectionInfo[garbled[1]] = NoInfo
    THEN <<>> ELSE garbled

StillKnown(h) ==
    IF unsubscribed # <<>> /\ h.connectionInfo[unsubscribed[1]] = NoInfo
    THEN <<>> ELSE unsubscribed

\* The manager's maps and the sockets become those of h.
SetHub(h) ==
    /\ connections' = h.connections
    /\ connectionInfo' = h.connectionInfo
    /\ orderRooms' = h.orderRooms
    /\ socket' = h.socket

\* handleConnection: a new id, registered in both maps with lastPing = now.
HandleConnection ==
    /\ nextConn < MaxConns
    /\ nextConn' = nextConn + 1
    /\ connections' = connections \cup {nextConn + 1}
    /\ connectionInfo' = [connectionInfo EXCEPT
                            ![nextConn + 1] = [subscribedOrders |-> {}, lastPing |-> now]]
    /\ socket' = [socket EXCEPT ![nextConn + 1] = "open"]
    /\ lastPub' = NoPub
    /\ UNCHANGED <<orderRooms, heartbeat, now, garbled, unsubscribed>>
    /\ UNCHANGED <<engineVars, routerVars>>

\* socket.on('message'): a message of the client arrives; what handleMessage
\* does to the maps.
OnMessage(c, m) ==
    /\ socket[c] \in {"open", "closing"}
    /\ garbled' \in Garbling(c, m)
    /\ unsubscribed' \in Unsubscribing(c, m)
    /\ SetHub(HandleMessageHub(Hub, c, m, now))
    /\ UNCHANGED <<nextConn, heartbeat, now>>
    /\ UNCHANGED <<engineVars, routerVars>>

\* handleSubscribe, the confirmation: an order-update with status PENDING for
\* the order id of the subscribe message, sent to the connection if its
\* socket is open.
SubscribeConfirmation(h, c, m) ==
    IF /\ m.type = "subscribe"
       /\ h.connectionInfo[c] # NoInfo
       /\ SendMessage(h, c, {}) = "sent"
    THEN [NoPub EXCEPT !.confirmation = <<c, m.orderId, "PENDING">>]
    ELSE NoPub

\* handleMessage with the replies of the hub left out of the picture.
HandleMessage(c, m) ==
    /\ OnMessage(c, m)
    /\ lastPub' = NoPub

\* handleMessage with the confirmation that answers a subscribe message.
HandleMessageConfirming(c, m) ==
    /\ OnMessage(c, m)
    /\ lastPub' = SubscribeConfirmation(Hub, c, m)

\* The client closes its end, or the connection breaks: the socket is no
\* longer open and its close event is due.
SocketClosing(c) ==
    /\ socket[c] = "open"
    /\ socket' = [socket EXCEPT ![c] = SocketClose(@)]
    /\ lastPub' = NoPub
    /\ UNCHANGED <<connections, connectionInfo, orderRooms, nextConn, heartbeat, now,
                   garbled, unsubscribed>>
    /\ UNCHANGED <<engineVars, routerVars>>

\* socket.on('close'): handleDisconnect.
CloseEvent(c) ==
    /\ socket[c] = "closing"
    /\ SetHub([HandleDisconnect(Hub, c) EXCEPT !.socket[c] = "closed"])
    /\ unsubscribed' = StillKnown(HandleDisconnect(Hub, c))
    /\ garbled' = GarbledKnown(HandleDisconnect(Hub, c))
    /\ lastPub' = NoPub
    /\ UNCHANGED <<nextConn, heartbeat, now>>
    /\ UNCHANGED <<engineVars, routerVars>>

\* A variant of broadcastOrderUpdate in which a send that throws marks the
\* order as failed.
BroadcastFailureFailsOrder(o) ==
    /\ \E throwers \in SUBSET {c \in Room(orderRooms, o) : socket[c] = "open"} :
         /\ lastPub' = BroadcastOrderUpdateHub(Hub, o, throwers)
         /\ order' = IF throwers = {} THEN order
                     ELSE [order EXCEPT ![o] = MarkAsFailedRow(@, ExecutionError)]
    /\ UNCHANGED <<connections, connectionInfo, orderRooms, socket, nextConn,
                   heartbeat, now, garbled, unsubscribed>>
    /\ UNCHANGED <<attempts, concurrency, nextId, history, executions, job,
                   inflight, op, faults, published, quoteLogs, failedAt,
                   request, reply, returnvalue, routerVars>>

\* broadcastOrderUpdate for an order id; socket.send throws for `throwers`.
BroadcastOrderUpdate(o) ==
    /\ \E throwers \in SUBSET {c \in Room(orderRooms, o) : socket[c] = "open"} :
         lastPub' = BroadcastOrderUpdateHub(Hub, o, throwers)
    /\ UNCHANGED <<connections, connectionInfo, orderRooms, socket, nextConn,
                   heartbeat, now, garbled, unsubscribed>>
    /\ UNCHANGED <<engineVars, routerVars>>

\* The heartbeat timer fires, one interval after the last time.
Sweep ==
    /\ heartbeat
    /\ now < MaxTicks * HEARTBEAT_INTERVAL
    /\ now' = now + HEARTBEAT_INTERVAL
    /\ SetHub(SweepConnections(Hub, InfoKeys(Hub), now + HEARTBEAT_INTERVAL))
    /\ unsubscribed' = StillKnown(SweepConnections(Hub, InfoKeys(Hub),
                                                    now + HEARTBEAT_INTERVAL))
    /\ garbled' = GarbledKnown(SweepConnections(Hub, InfoKeys(Hub),
                                                 now + HEARTBEAT_INTERVAL))
    /\ lastPub' = NoPub
    /\ UNCHANGED <<nextConn, heartbeat>>
    /\ UNCHANGED <<engineVars, routerVars>>

\* Time passes while no heartbeat timer is running.
PassTime ==
    /\ ~heartbeat
    /\ now < MaxTicks * HEARTBEAT_INTERVAL
    /\ now' = now + HEARTBEAT_INTERVAL
    /\ lastPub' = NoPub
    /\ UNCHANGED <<connections, connectionInfo, orderRooms, socket, nextConn,
                   heartbeat, garbled, unsubscribed>>
    /\ UNCHANGED <<engineVars, routerVars>>

\* shutdown: clearInterval, then the sockets and the maps.
Shutdown ==
    /\ heartbeat' = FALSE
    /\ SetHub(ShutdownHub(Hub))
    /\ unsubscribed' = StillKnown(ShutdownHub(Hub))
    /\ garbled' = GarbledKnown(ShutdownHub(Hub))
    /\ lastPub' = NoPub
    /\ UNCHANGED <<nextConn, now>>
    /\ UNCHANGED <<engineVars, routerVars>>

\* Connections, subscriptions and the fan-out of updates, at one instant; no
\* message that is not JSON is observed.
HubNext ==
    \/ HandleConnection
    \/ \E c \in ConnIds : \E m \in Messages :
         HandleMessage(c, m) /\ garbled' = <<>>
    \/ \E c \in ConnIds : SocketClosing(c)
    \/ \E c \in ConnIds : CloseEvent(c)
    \/ \E o \in OrderTopics : BroadcastOrderUpdate(o)
    \/ Shutdown

\* Connections, subscriptions to orders and the heartbeat, as time passes; no
\* unsubscription is observed.
HeartbeatNext ==
    \/ HandleConnection
    \/ \E c \in ConnIds : \E m \in Messages :
         /\ m.orderId # Wildcard
         /\ HandleMessage(c, m)
         /\ unsubscribed' = <<>>
    \/ \E c \in ConnIds : CloseEvent(c)
    \/ Sweep
    \/ PassTime
    \/ Shutdown

\* One component alone: everything else stays as constructed.
ComponentInit ==
    /\ attempts = MaxAttempts
    /\ concurrency = MaxConcurrency
    /\ EngineInit
    /\ HubInit
    /\ RouterInit

HubSpec == ComponentInit /\ [][HubNext]_vars

HeartbeatSpec == ComponentInit /\ [][HeartbeatNext]_vars

\* ------------------------------------------------------ DexRouterService
\* this.providers, in registration order.
Providers == <<"RAYDIUM", "METEORA">>

\* What a provider's getQuote can do: throw, or return a quote with some
\* estimatedOutput.
AdapterOutcomes ==
    { [threw |-> TRUE, estimatedOutput |-> 0] }
    \cup { [threw |-> FALSE, estimatedOutput |-> n] : n \in 1..MaxOutput }

\* The null that stands for the quote of a provider that threw.
NullQuote == [dex |-> NULL, estimatedOutput |-> 0]

\* A variant of getAllQuotes in which the first exception ends the batch.
RECURSIVE GetAllQuotesUntilThrow(_)
GetAllQuotesUntilThrow(a) ==
    IF a = <<>> \/ Head(a).threw THEN <<>>
    ELSE <<[dex |-> Providers[Len(Providers) - Len(a) + 1],
            estimatedOutput |-> Head(a).estimatedOutput]>>
         \o GetAllQuotesUntilThrow(Tail(a))

\* getAllQuotes: every provider is asked, a provider that throws yields null,
\* and the nulls are filtered out.
GetAllQuotesOf(a) ==
    SelectSeq([i \in 1..Len(Providers) |->
                  IF a[i].threw THEN NullQuote
                  ELSE [dex |-> Providers[i],
                        estimatedOutput |-> a[i].estimatedOutput]],
              LAMBDA q : q # NullQuote)

\* A variant of the insertion that puts q in front of the quotes whose
\* estimatedOutput equals its own.
RECURSIVE InsertBeforeEqual(_, _)
InsertBeforeEqual(sorted, q) ==
    IF sorted = <<>> THEN <<q>>
    ELSE IF Head(sorted).estimatedOutput - q.estimatedOutput > 0
         THEN <<Head(sorted)>> \o InsertBeforeEqual(Tail(sorted), q)
         ELSE <<q>> \o sorted

\* Where the sort puts q in a list already sorted: behind every quote whose
\* estimatedOutput is at least its own (Array.prototype.sort is stable).
RECURSIVE InsertByOutput(_, _)
InsertByOutput(sorted, q) ==
    IF sorted = <<>> THEN <<q>>
    ELSE IF Head(sorted).estimatedOutput - q.estimatedOutput >= 0
         THEN <<Head(sorted)>> \o InsertByOutput(Tail(sorted), q)
         ELSE <<q>> \o sorted

\* A variant of the sort that puts the lowest estimatedOutput first.
RECURSIVE SortLowestFirst(_)
SortLowestFirst(qs) ==
    IF qs = <<>> THEN <<>>
    ELSE LET rest == SortLowestFirst(SubSeq(qs, 1, Len(qs) - 1))
             q == qs[Len(qs)]
         IN IF rest # <<>> /\ Head(rest).estimatedOutput > q.estimatedOutput
            THEN <<q>> \o rest
            ELSE rest \o <<q>>

\* [...quotes].sort((a, b) => b.estimatedOutput - a.estimatedOutput)
RECURSIVE SortByOutput(_)
SortByOutput(qs) ==
    IF qs = <<>> THEN <<>>
    ELSE InsertByOutput(SortByOutput(SubSeq(qs, 1, Len(qs) - 1)), qs[Len(qs)])

\* findBestRoute on the quotes getAllQuotes returned.
FindBestRouteOf(qs) ==
    IF Len(qs) = 0
    THEN [kind |-> "error", message |-> NoQuotesError]
    ELSE [kind |-> "ok",
          selectedDex |-> SortByOutput(qs)[1].dex,
          selectedQuote |-> SortByOutput(qs)[1],
          allQuotes |-> SortByOutput(qs)]

\* A call of getAllQuotes; a says what each provider does.
GetAllQuotes ==
    /\ \E a \in [1..Len(Providers) -> AdapterOutcomes] :
         /\ adapters' = a
         /\ quotes' = GetAllQuotesOf(a)
    /\ route' = [kind |-> "none"]
    /\ UNCHANGED <<engineVars, hubVars>>

\* A call of findBestRoute, which calls getAllQuotes first.
FindBestRoute ==
    /\ \E a \in [1..Len(Providers) -> AdapterOutcomes] :
         /\ adapters' = a
         /\ quotes' = GetAllQuotesOf(a)
         /\ route' = FindBestRouteOf(GetAllQuotesOf(a))
    /\ UNCHANGED <<engineVars, hubVars>>

RouterNext == GetAllQuotes \/ FindBestRoute

RouterSpec == ComponentInit /\ [][RouterNext]_vars

Next ==
    \/ AddOrderCreate
    \/ \E o \in OrderIds :
         \/ AddOrderEnqueue(o)
         \/ Dispatch(o)
         \/ ProcessOrder(o)
         \/ BackoffElapsed(o)
         \/ RetryJob(o)
         \/ CancelFind(o)
         \/ CancelRemove(o)
         \/ CancelMark(o)
         \/ RetryFind(o)
         \/ RetryReset(o)
         \/ RetryAdd(o)

Spec == Init /\ [][Next]_vars

\* ------------------------------------------------- composed specifications
\* orderQueue.add with the job id of an order that was enqueued before.
EnqueueAgain(o) ==
    /\ Exists(o)
    /\ op[o] = "none"
    /\ job' = QueueAdd(job, o)
    /\ UNCHANGED <<attempts, concurrency, nextId, order, history, executions,
                   inflight, op, faults>>
    /\ UNCHANGED <<published, quoteLogs, failedAt, request, reply, returnvalue,
                   hubVars, routerVars>>

\* The queue and the worker, with enqueues repeated for the same order id.
QueueNext ==
    \/ AddOrderCreate
    \/ \E o \in OrderIds :
         \/ AddOrderEnqueue(o)
         \/ EnqueueAgain(o)
         \/ Dispatch(o)
         \/ ProcessOrder(o)
         \/ BackoffElapsed(o)
         \/ RetryJob(o)

QueueSpec == Init /\ [][QueueNext]_vars

\* The worker on the orders that have a topic, next to clients that connect,
\* subscribe to these orders and unsubscribe, and updates broadcast with
\* failing sends.
JointNext ==
    \/ nextId < MaxTopics /\ AddOrderCreate
    \/ \E o \in OrderTopics :
         \/ AddOrderEnqueue(o)
         \/ Dispatch(o)
         \/ ProcessOrder(o)
         \/ BroadcastOrderUpdate(o)
    \/ HandleConnection
    \/ \E c \in ConnIds : \E m \in Messages :
         /\ m.orderId \in OrderTopics
         /\ HandleMessage(c, m)
         /\ unsubscribed' = <<>>

JointSpec == Init /\ [][JointNext]_vars

\* ------------------------------------------------------------ properties
Terminal == {"CONFIRMED", "FAILED"}

\* The edges of the order state graph: the forward path, any non-terminal
\* status to FAILED, and the manual retry edge FAILED -> PENDING.
StateGraph ==
    { <<"PENDING", "ROUTING">>, <<"ROUTING", "BUILDING">>,
      <<"BUILDING", "SUBMITTED">>, <<"SUBMITTED", "CONFIRMED">>,
      <<"FAILED", "PENDING">> }
    \cup { <<s, "FAILED">> : s \in OrderStatus \ Terminal }

\* The step ends an attempt of processOrder on order o.
AttemptEnded(o) == inflight'[o] < inflight[o]

\* History rows the step writes for order o.
RowsWritten(o) == Len(history'[o]) - Len(history[o])

\* The attempt that the step ends threw: it did not reach the last
\* updateStatus of the try block.
AttemptThrew(o) == RowsWritten(o) < Len(TrySteps)

\* The message of the error thrown after n updateStatus calls of the try block.
ThrownMessage(n) == (CHOOSE t \in TryOutcomes : t.threw /\ t.done = n).message

\* C1: every two consecutive OrderStatusHistory rows of an order are an edge
\* of the state graph; in particular a re-attempt never records ROUTING after
\* BUILDING or SUBMITTED.
C1_HistoryFollowsStateGraph ==
    \A o \in OrderIds :
        \A i \in 1..(Len(history[o]) - 1) :
            <<history[o][i], history[o][i + 1]>> \in StateGraph

\* C2: an order has exactly one OrderExecution row when its status is
\* CONFIRMED and none otherwise.
C2_ExecutionRowIffConfirmed ==
    \A o \in OrderIds :
        executions[o] = IF order[o].status = "CONFIRMED" THEN 1 ELSE 0

\* C3: at most one execution of processOrder is in flight for an order id.
C3_OneInFlightPerOrder == \A o \in OrderIds : inflight[o] <= 1

\* C3 witness: two orders are being processed at once, one of them on a
\* re-attempt of its job.
C3_Witness ==
    \E o, p \in OrderIds :
        /\ o # p
        /\ inflight[o] = 1 /\ job[o].attemptsMade >= 1
        /\ inflight[p] = 1

\* C4: the number of active jobs never exceeds the configured concurrency.
C4_ActiveWithinConcurrency == Cardinality(ActiveJobs) <= concurrency

\* C4 witness: every slot is taken and a further job waits.
C4_Witness ==
    /\ Cardinality(ActiveJobs) = concurrency
    /\ \E o \in OrderIds : job[o].state = "waiting"

\* C5: every order that was created and enqueued reaches CONFIRMED or FAILED.
\* In the form a finite run refutes: once the queue has finished the order's
\* job (completed or failed, so that no attempt is scheduled any more), the
\* order is CONFIRMED or FAILED.
C5_FinishedJobOrderTerminal ==
    \A o \in OrderIds :
        job[o].state \in {"completed", "failed"} => order[o].status \in Terminal

\* C6: a job whose attempt fails in routing or execution, with attempts left,
\* is scheduled by the queue to run again.
C6_FailedAttemptRunsAgain ==
    [][\A o \in OrderIds :
          (AttemptEnded(o) /\ AttemptThrew(o)
             /\ job[o].attemptsMade + 1 < attempts)
          => job'[o].state \in {"delayed", "waiting"}]_vars

C8_RetryCountWithinAttempts ==
    \A o \in OrderIds : order[o].retryCount <= attempts

\* C9: an order whose status is FAILED has a failureReason.
C9_FailedHasReason ==
    \A o \in OrderIds :
        order[o].status = "FAILED" => order[o].failureReason # NULL

\* C9 witness: one order was failed by the worker and another by cancelOrder.
C9_Witness ==
    \E o, p \in OrderIds :
        /\ order[o].status = "FAILED" /\ order[o].failureReason = NoQuotesError
        /\ order[p].status = "FAILED" /\ order[p].failureReason = CancelReason

\* C10: the status of an order equals the status of its latest history row,
\* FAILED included. (An order never changed has status PENDING and no row.)
C10_StatusIsLastHistoryRow ==
    \A o \in OrderIds :
        IF history[o] = <<>>
        THEN order[o].status \in {"NONE", "PENDING"}
        ELSE order[o].status = history[o][Len(history[o])]

\* ------------------------------------------- properties of the publishing
\* The statuses the worker persisted for order o with updateStatus, in order.
WorkerRows(o) == SelectSeq(history[o], LAMBDA s : s # "PENDING")

\* The order-update messages published for order o, the FAILED ones left out.
PublishedRows(o) == SelectSeq(published[o], LAMBDA s : s # "FAILED")

\* C11: once no attempt of an order is running, the order-update messages
\* published for it are the statuses the worker persisted for it (ROUTING,
\* BUILDING, SUBMITTED, CONFIRMED), in the same order, and a FAILED message
\* has been published when the worker failed the order.
C11_PersistedStatusPublished ==
    \A o \in OrderIds :
        inflight[o] = 0 =>
            /\ PublishedRows(o) = WorkerRows(o)
            /\ (order[o].status = "FAILED" /\ order[o].failureReason # CancelReason)
                  => \E i \in 1..Len(published[o]) : published[o][i] = "FAILED"

\* --------------------------------------------- properties of the router
\* The providers whose getQuote returned in the last call.
Quoted == {i \in 1..Len(adapters) : ~adapters[i].threw}

\* The quote provider i returned.
QuoteOf(i) == [dex |-> Providers[i], estimatedOutput |-> adapters[i].estimatedOutput]

\* C12: when some provider quoted, findBestRoute returns as selectedQuote the
\* quote of a provider that quoted, no provider quoted a larger
\* estimatedOutput, and selectedDex is that quote's venue; when every provider
\* threw, findBestRoute throws 'No valid quotes available from any DEX'.
C12_BestRouteMaximal ==
    route.kind # "none" =>
        /\ Quoted # {} =>
             /\ route.kind = "ok"
             /\ \E i \in Quoted : route.selectedQuote = QuoteOf(i)
             /\ \A j \in Quoted :
                  adapters[j].estimatedOutput <= route.selectedQuote.estimatedOutput
             /\ route.selectedDex = route.selectedQuote.dex
        /\ Quoted = {} =>
             /\ route.kind = "error"
             /\ route.message = NoQuotesError

\* The second provider registered out-quotes the first and is selected.
C12_Witness ==
    /\ route.kind = "ok"
    /\ Quoted = {1, 2}
    /\ adapters[1].estimatedOutput < adapters[2].estimatedOutput
    /\ route.selectedDex = Providers[2]

\* C13: getAllQuotes returns exactly the quotes of the providers that did not
\* throw, in registration order, whichever providers threw.
C13_QuotesOfNonThrowing ==
    adapters # <<>> =>
        /\ Len(quotes) = Cardinality(Quoted)
        /\ \A i \in Quoted :
             quotes[Cardinality({j \in Quoted : j <= i})] = QuoteOf(i)

\* The first provider threw and the quote of the second was returned.
C13_Witness ==
    /\ adapters # <<>>
    /\ adapters[1].threw
    /\ ~adapters[2].threw
    /\ route.kind = "none"
    /\ quotes = <<QuoteOf(2)>>

OpenSubscribers(t) ==
    {c \in connections : socket[c] = "open"
                         /\ t \in connectionInfo[c].subscribedOrders}

\* An update was just published: lastPub tells where it went, and the
\* manager's maps and the sockets are still those the publish saw.
JustPublished == lastPub.orderId \in OrderTopics

\* C14: an update published for an order id reaches every open connection
\* subscribed to that order id and every open connection subscribed to the
\* wildcard topic, except those whose send threw.
C14_DeliveredToOrderAndWildcard ==
    JustPublished =>
        \A c \in OpenSubscribers(lastPub.orderId) \cup OpenSubscribers(Wildcard) :
            c \notin lastPub.threw => c \in lastPub.sent

\* C15: an update published for a topic is not delivered to a connection that
\* unsubscribed from that topic and has not subscribed to it again; a
\* connection that unsubscribed from the wildcard topic and is subscribed to
\* no order receives nothing.
C15_NoDeliveryAfterUnsubscribe ==
    (JustPublished /\ unsubscribed # <<>>) =>
        /\ unsubscribed[2] = lastPub.orderId => unsubscribed[1] \notin lastPub.sent
        /\ (/\ unsubscribed[2] = Wildcard
            /\ lastPub.orderId \notin connectionInfo[unsubscribed[1]].subscribedOrders)
              => unsubscribed[1] \notin lastPub.sent

\* An update is published for the order a connection unsubscribed from: the
\* connection is still open and known but is passed over, while another
\* subscriber receives the update.
C15_Witness ==
    /\ JustPublished
    /\ unsubscribed # <<>>
    /\ unsubscribed[2] = lastPub.orderId
    /\ unsubscribed[1] \in connections
    /\ socket[unsubscribed[1]] = "open"
    /\ unsubscribed[1] \notin lastPub.sent
    /\ lastPub.sent # {}

\* C16: a publish never fails, and it reaches every open subscriber of the
\* order id whose own send did not throw, whatever happens to the sends to
\* the others and whatever sockets of the room are no longer open.
C16_SendFailureIsolated ==
    JustPublished =>
        /\ ~lastPub.failed
        /\ \A c \in OpenSubscribers(lastPub.orderId) :
             c \notin lastPub.threw => c \in lastPub.sent
        /\ lastPub.sent \cap lastPub.threw = {}

\* The send to one subscriber threw and another subscriber received the update.
C16_Witness ==
    /\ JustPublished
    /\ lastPub.threw # {}
    /\ lastPub.sent # {}
    /\ ~lastPub.failed

\* ------------------------------------------ properties of the heartbeat
\* When connection c was last heard of: when it was accepted or its last
\* message arrived, as far as observed.
LastSeen(c) ==
    IF garbled # <<>> /\ garbled[1] = c THEN garbled[2]
    ELSE connectionInfo[c].lastPing

\* The step is a run of the heartbeat callback.
SweepRuns == heartbeat /\ now' # now

\* The step leaves connection c in no registry and in no room, its socket
\* closed or closing.
Deregistered(c) ==
    /\ c \notin connections'
    /\ connectionInfo'[c] = NoInfo
    /\ \A t \in DOMAIN orderRooms' : c \notin orderRooms'[t]
    /\ socket'[c] # "open"

\* C18: a run of the heartbeat callback closes and deregisters every
\* connection last heard of more than CONNECTION_TIMEOUT ago, and leaves alone
\* every connection whose last message arrived within CONNECTION_TIMEOUT.
C18_SweepClosesExactlyStale ==
    [][SweepRuns =>
         \A c \in InfoKeys(Hub) :
             IF now' - LastSeen(c) > CONNECTION_TIMEOUT
             THEN Deregistered(c)
             ELSE /\ connectionInfo'[c] = connectionInfo[c]
                  /\ socket'[c] = socket[c]
                  /\ c \in connections => c \in connections']_vars

\* ------------------------------------------- properties of the shutdown
\* The three registries of the manager hold nothing.
RegistriesEmpty ==
    /\ connections = {}
    /\ InfoKeys(Hub) = {}
    /\ DOMAIN orderRooms = {}

\* C19: the step in which shutdown stops the heartbeat leaves no socket open
\* and the three registries empty, in a state that another shutdown would not
\* change; once stopped the heartbeat stays stopped and the passing of time
\* closes no connection; and a close event that arrives while the registries
\* are empty leaves them empty.
C19_ShutdownClearsAndIsIdempotent ==
    [][/\ (heartbeat /\ ~heartbeat') =>
            /\ RegistriesEmpty'
            /\ \A c \in ConnIds : socket'[c] # "open"
            /\ ShutdownHub(Hub)' = Hub'
       /\ ~heartbeat =>
            /\ ~heartbeat'
            /\ now' # now => Hub' = Hub
       /\ (RegistriesEmpty /\ \E c \in ConnIds : socket[c] = "closing"
                                                 /\ socket'[c] = "closed")
            => RegistriesEmpty']_vars

\* The heartbeat is stopped and the registries are empty; the close event of
\* one closed connection has arrived, that of another is still due, and time
\* has passed.
C19_Witness ==
    /\ ~heartbeat
    /\ RegistriesEmpty
    /\ now > 0
    /\ \E c, d \in ConnIds : socket[c] = "closed" /\ socket[d] = "closing"

\* ----------------------------- properties of the engine beside the hub
\* What is persisted of the orders, and the queue's jobs for them.
Persisted == <<order, history, executions, job, inflight>>

CancelMarks(o) ==
    /\ order[o].failureReason # CancelReason
    /\ order'[o].failureReason = CancelReason

\* C21: cancelOrder marks an order as failed only if no worker has started
\* on it: the order is still PENDING and has no history row; and the worker
\* never writes a row for an order that carries the cancel reason.
C21_CancelOnlyBeforeDispatch ==
    [][\A o \in OrderIds :
         /\ CancelMarks(o) => (order[o].status = "PENDING" /\ history[o] = <<>>)
         /\ (order[o].status = "FAILED" /\ order[o].failureReason = CancelReason)
              => ~AttemptEnded(o)]_vars

\* C22: CONFIRMED is terminal, and FAILED changes only to PENDING (the manual
\* retry): no step takes an order from CONFIRMED to another status or from
\* FAILED to a status other than PENDING.
C22_TerminalStatusesStay ==
    [][\A o \in OrderIds :
         /\ order[o].status = "CONFIRMED" => order'[o].status = "CONFIRMED"
         /\ order[o].status = "FAILED" => order'[o].status \in {"FAILED", "PENDING"}]_vars

\* ------------------------------------- the worker with its routing calls
\* What the providers can do in the findBestRoute call of an attempt: each
\* throws or returns a quote, and either can be the better one.
AttemptAdapters ==
    [1..Len(Providers) ->
        {x \in AdapterOutcomes : x.estimatedOutput <= Len(Providers)}]

\* persistQuoteLogs, quotes.map: one row per quote, flagged where the quote's
\* venue is the selected one.
QuoteLogRows(qs, selectedDex) ==
    [i \in 1..Len(qs) |->
        [dex |-> qs[i].dex, selectedForExecution |-> qs[i].dex = selectedDex]]

\* The DexQuoteLog rows of an order after findBestRoute(params, orderId):
\* createMany appends the rows, or throws and appends nothing; nothing is
\* written when findBestRoute threw before.
PersistQuoteLogs(logs, r, qs, persisted) ==
    IF r.kind = "ok" /\ persisted THEN logs \o QuoteLogRows(qs, r.selectedDex)
    ELSE logs

\* A variant in which an exception of createMany leaves findBestRoute.
RoutingAllowsPersistThrows(r, persisted, done) ==
    IF r.kind = "error" \/ ~persisted THEN done = 1 ELSE done >= 3

\* How far the try block gets with what findBestRoute did: it throws without
\* quotes, and processOrder stops behind updateStatus(ROUTING); with a route,
\* whether or not the quote log was written, processOrder goes on to BUILDING,
\* SUBMITTED and executeSwap.
RoutingAllows(r, persisted, done) ==
    IF r.kind = "error" THEN done = 1 ELSE done >= 3

\* The findBestRoute call of the attempt that the step makes on order o.
FindBestRouteFor(o) ==
    \E a \in AttemptAdapters, persisted \in BOOLEAN :
        /\ adapters' = a
        /\ quotes' = GetAllQuotesOf(a)
        /\ route' = FindBestRouteOf(GetAllQuotesOf(a))
        /\ RoutingAllows(FindBestRouteOf(GetAllQuotesOf(a)), persisted, RowsWritten(o))
        /\ quoteLogs' = [quoteLogs EXCEPT
                           ![o] = PersistQuoteLogs(@, FindBestRouteOf(GetAllQuotesOf(a)),
                                                   GetAllQuotesOf(a), persisted)]

\* processOrder with its findBestRoute call and the quote log.
ProcessOrderRouted(o) ==
    /\ Attempt(o)
    /\ FindBestRouteFor(o)

\* The queue and the worker on a single order, with the quotes of every attempt.
WorkerNext ==
    \/ nextId = 0 /\ AddOrderCreate
    \/ \E o \in OrderIds :
         \/ AddOrderEnqueue(o)
         \/ Dispatch(o)
         \/ ProcessOrderRouted(o)
         \/ BackoffElapsed(o)
         \/ RetryJob(o)

WorkerSpec == Init /\ [][WorkerNext]_vars

\* ------------------------------------------ properties of the quote log
\* The DexQuoteLog rows of order o flagged selectedForExecution.
SelectedRows(o) ==
    {i \in 1..Len(quoteLogs[o]) : quoteLogs[o][i].selectedForExecution}

\* C23: an order that has DexQuoteLog rows has exactly one row flagged
\* selectedForExecution, whatever the number of attempts made on it, and an
\* attempt that writes rows writes one row per quote returned, the flagged one
\* being the row of the venue findBestRoute selected.
C23_OneSelectedQuoteLog ==
    [][\A o \in OrderIds :
         /\ quoteLogs'[o] # <<>> => Cardinality(SelectedRows(o)') = 1
         /\ quoteLogs'[o] # quoteLogs[o] =>
              /\ Len(quoteLogs'[o]) = Len(quoteLogs[o]) + Len(quotes')
              /\ \A i \in (Len(quoteLogs[o]) + 1)..Len(quoteLogs'[o]) :
                   quoteLogs'[o][i].selectedForExecution
                       <=> quoteLogs'[o][i].dex = route'.selectedDex]_vars

\* The step ends an attempt on order o whose findBestRoute returned a route
\* while createMany threw: no DexQuoteLog row was written.
PersistFailed(o) ==
    /\ AttemptEnded(o)
    /\ route'.kind = "ok"
    /\ quoteLogs'[o] = quoteLogs[o]

OnlyRouted(o) ==
    /\ history[o] # <<>>
    /\ \A i \in 1..Len(history[o]) : history[o][i] = "ROUTING"
    /\ order[o].retryCount = Len(history[o])

\* C25: an attempt in which every provider throws writes ROUTING and nothing
\* else, and no DexQuoteLog row; and once the queue is done with an order
\* whose every attempt went that way, the order is FAILED with the no-quotes
\* message as failureReason and has no DexQuoteLog row.
C25_NoQuotesEndsFailed ==
    [][\A o \in OrderIds :
         /\ (AttemptEnded(o) /\ Quoted' = {}) =>
              /\ RowsWritten(o) = 1
              /\ quoteLogs'[o] = quoteLogs[o]
         /\ (OnlyRouted(o)' /\ job'[o].state = "completed") =>
              /\ order'[o].status = "FAILED"
              /\ order'[o].failureReason = NoQuotesError
              /\ quoteLogs'[o] = <<>>]_vars

\* ------------------------------------------------------- OrderController
\* amountIn: .max(1000000000).
MAX_AMOUNT_IN == 1000000000

\* slippage is counted in units of 0.0001: .min(0.0001), .max(0.5).
MIN_SLIPPAGE == 1
MAX_SLIPPAGE == 5000

\* The characters /^[A-Z0-9]+$/ admits, as far as request bodies use them.
UpperOrDigit == {"A", "C", "D", "L", "O", "S", "U", "1"}

\* Token names a request can carry, as sequences of characters.
TokenNames == { <<>>, <<"S", "O", "L">>, <<"s", "o", "l">>, <<"U", "S", "D", "C">> }

\* A body the schema accepts.
ValidBody ==
    [type |-> "MARKET", tokenIn |-> <<"S", "O", "L">>, tokenOut |-> <<"U", "S", "D", "C">>,
     amountIn |-> 1, slippage |-> <<>>]

\* The bodies of POST /api/orders/execute: the valid body with one field
\* replaced. type may be missing, a token name may be empty or in lower
\* case, amountIn may be zero or too large, and slippage may be given, in
\* range or out of it.
Bodies ==
    {[ValidBody EXCEPT !.type = t] : t \in {"MARKET", "LIMIT", NULL}}
    \cup {[ValidBody EXCEPT !.tokenIn = t] : t \in TokenNames}
    \cup {[ValidBody EXCEPT !.tokenOut = t] : t \in TokenNames}
    \cup {[ValidBody EXCEPT !.amountIn = n] : n \in {0, MAX_AMOUNT_IN, MAX_AMOUNT_IN + 1}}
    \cup {[ValidBody EXCEPT !.slippage = <<n>>] :
              n \in {0, MIN_SLIPPAGE, MAX_SLIPPAGE, MAX_SLIPPAGE + 1}}

\* z.string().min(1).max(50).regex(/^[A-Z0-9]+$/)
TokenOk(t) ==
    /\ Len(t) >= 1
    /\ Len(t) <= 50
    /\ \A i \in DOMAIN t : t[i] \in UpperOrDigit

\* A variant of the amountIn rule that admits zero.
AmountInOkFromZero(n) == n >= 0 /\ n <= MAX_AMOUNT_IN

\* z.number().positive().finite().max(1000000000)
AmountInOk(n) == n > 0 /\ n <= MAX_AMOUNT_IN

\* z.number().min(0.0001).max(0.5).optional().default(0.01)
SlippageOk(s) == IF s = <<>> THEN TRUE ELSE s[1] >= MIN_SLIPPAGE /\ s[1] <= MAX_SLIPPAGE

\* marketOrderSchema.parse(body) does not throw.
MarketOrderSchema(b) ==
    /\ b.type = "MARKET"
    /\ TokenOk(b.tokenIn)
    /\ TokenOk(b.tokenOut)
    /\ AmountInOk(b.amountIn)
    /\ SlippageOk(b.slippage)

\* The replies of executeOrder.
Created == [status |-> 201, code |-> NULL]
ValidationError == [status |-> 400, code |-> "VALIDATION_ERROR"]
InternalError == [status |-> 500, code |-> "INTERNAL_ERROR"]

\* executeOrder, up to orderRepository.create inside addOrder: a body the
\* schema refuses is answered with 400; simulateOrder may find no quote, which
\* is answered with 500; otherwise the Order row is created and the request
\* goes on to the enqueue.
ExecuteOrder(b) ==
    /\ \A p \in OrderIds : op[p] = "none"
    /\ request' = b
    /\ \/ /\ ~MarketOrderSchema(b)
          /\ reply' = ValidationError
          /\ UNCHANGED <<nextId, order, op>>
       \/ /\ MarketOrderSchema(b)
          /\ reply' = InternalError
          /\ UNCHANGED <<nextId, order, op>>
       \/ /\ MarketOrderSchema(b)
          /\ nextId < MaxOrders
          /\ reply' = NoReply
          /\ nextId' = nextId + 1
          /\ order' = [order EXCEPT ![nextId + 1] = CreateRow]
          /\ op' = [op EXCEPT ![nextId + 1] = "enqueue"]
    /\ UNCHANGED <<attempts, concurrency, history, executions, job, inflight,
                   faults, published, quoteLogs, failedAt, returnvalue>>
    /\ UNCHANGED <<hubVars, routerVars>>

\* executeOrder, after addOrder: 201 with the order id and the job id, or 500
\* when orderQueue.add threw.
ExecuteOrderReply ==
    /\ reply = NoReply
    /\ nextId > 0
    /\ MarketOrderSchema(request)
    /\ op[nextId] = "none"
    /\ reply' = IF job[nextId].state = "none" THEN InternalError ELSE Created
    /\ UNCHANGED <<attempts, concurrency, nextId, order, history, executions, job,
                   inflight, op, faults, published, quoteLogs, failedAt, request,
                   returnvalue>>
    /\ UNCHANGED <<hubVars, routerVars>>

\* Submissions, one at a time, up to their replies.
SubmitNext ==
    \/ \E b \in Bodies : ExecuteOrder(b)
    \/ \E o \in OrderIds : AddOrderEnqueue(o)
    \/ ExecuteOrderReply

SubmitSpec == Init /\ [][SubmitNext]_vars

\* ------------------------------------------ properties of executeOrder
\* What is stored and queued.
StoreAndQueue == <<nextId, order, history, executions, quoteLogs, job, inflight, op>>

\* The body is not a market order with upper-case token names, an amount
\* between 0 (excluded) and 1000000000 and, if given, a slippage between
\* 0.0001 and 0.5.
Malformed(b) ==
    \/ b.type # "MARKET"
    \/ b.tokenIn \notin {<<"S", "O", "L">>, <<"U", "S", "D", "C">>}
    \/ b.tokenOut \notin {<<"S", "O", "L">>, <<"U", "S", "D", "C">>}
    \/ b.amountIn < 1
    \/ b.amountIn > 1000000000
    \/ (b.slippage # <<>> /\ (b.slippage[1] < 1 \/ b.slippage[1] > 5000))

\* C26: a submission whose body is malformed is answered with 400
\* VALIDATION_ERROR in the step that receives it, and that step creates no
\* Order row and no job and leaves store and queue as they were; and no other
\* submission is answered with 400.
C26_InvalidSubmissionRejected ==
    [][/\ (Malformed(request') /\ <<request, reply>>' # <<request, reply>>) =>
            /\ reply' = ValidationError
            /\ StoreAndQueue' = StoreAndQueue
       /\ (reply' = ValidationError /\ reply # ValidationError) =>
            Malformed(request')]_vars

\* An order was submitted and queued before; a later submission with amountIn
\* 0 has been answered with 400.
C26_Witness ==
    /\ nextId = 1
    /\ job[1].state = "waiting"
    /\ request.type = "MARKET"
    /\ request.amountIn = 0
    /\ request.tokenIn = <<"S", "O", "L">>
    /\ request.tokenOut = <<"U", "S", "D", "C">>
    /\ request.slippage = <<>>
    /\ reply = ValidationError

\* ------------------------------------------ properties of one attempt
\* C27: an attempt on a PENDING order in which no step throws appends exactly
\* the rows ROUTING, BUILDING, SUBMITTED, CONFIRMED in that order, leaves the
\* order CONFIRMED with retryCount and failureReason as they were, and returns
\* a success result that carries the transaction reference of the order's
\* swap; the job is then completed. The swap is called only after SUBMITTED
\* was persisted: an attempt that ends with the execution error, and an attempt
\* that returns a transaction reference, has written ROUTING, BUILDING and
\* SUBMITTED before.
C27_CleanAttemptConfirms ==
    [][\A o \in OrderIds :
          /\ (AttemptEnded(o) /\ order[o].status = "PENDING"
                /\ returnvalue'[o].success /\ job'[o].state = "completed") =>
                /\ history'[o] =
                     history[o] \o <<"ROUTING", "BUILDING", "SUBMITTED", "CONFIRMED">>
                /\ order'[o].status = "CONFIRMED"
                /\ order'[o].retryCount = order[o].retryCount
                /\ order'[o].failureReason = order[o].failureReason
                /\ returnvalue'[o].txHash = <<"tx", o>>
                /\ returnvalue'[o].error = NULL
          /\ (AttemptEnded(o) /\ order[o].status = "PENDING"
                /\ ~returnvalue'[o].success /\ job'[o].state = "completed") =>
                order'[o].status # "CONFIRMED"
          /\ (AttemptEnded(o) /\ (returnvalue'[o].error = ExecutionError
                                   \/ returnvalue'[o].txHash # <<>>)) =>
                /\ RowsWritten(o) >= 3
                /\ SubSeq(history'[o], Len(history[o]) + 1, Len(history[o]) + 3)
                     = <<"ROUTING", "BUILDING", "SUBMITTED">>]_vars

\* C27 witness: the first attempt of an order went through without a throw:
\* the history holds the four rows, the order is CONFIRMED with retryCount 0
\* and the job completed with a success result.
C27_Witness ==
    \E o \in OrderIds :
        /\ history[o] = <<"ROUTING", "BUILDING", "SUBMITTED", "CONFIRMED">>
        /\ order[o] = [status |-> "CONFIRMED", retryCount |-> 0, failureReason |-> NULL]
        /\ job[o] = [state |-> "completed", attemptsMade |-> 0]
        /\ returnvalue[o].success
        /\ returnvalue[o].txHash = <<"tx", o>>

\* The step ends an attempt on order o that threw in its try block and was not
\* the last one allowed.
ThrewBeforeLast(o) ==
    /\ AttemptEnded(o)
    /\ AttemptThrew(o)
    /\ job[o].attemptsMade + 1 < attempts

\* The attempt left status, failureReason, history rows and execution rows
\* where its try block had put them: the history gained the try block's rows
\* and nothing else, and the status is the last of them.
CatchKeptRows(o) ==
    /\ RowsWritten(o) \in {1, 3}
    /\ history'[o] = history[o] \o SubSeq(<<"ROUTING", "BUILDING", "SUBMITTED">>,
                                          1, RowsWritten(o))
    /\ order'[o].status = history'[o][Len(history'[o])]
    /\ order'[o].status \in {"ROUTING", "SUBMITTED"}
    /\ order'[o].failureReason = order[o].failureReason
    /\ executions'[o] = executions[o]

BACKOFF_DELAY == 1000

\* A variant of the backoff that waits the base delay after every failure.
BackoffDelayFixed(attemptsMade) == BACKOFF_DELAY

\* backoff: {type: 'exponential', delay: 1000}: the delay after the failure
\* that made the job's attempt count attemptsMade.
BackoffDelay(attemptsMade) == BACKOFF_DELAY * 2 ^ (attemptsMade - 1)

\* The queue's clock advances by one base delay. MaxFaults bounds the calls
\* that throw between two ticks: the count starts afresh.
ClockTick ==
    /\ now < MaxClock * BACKOFF_DELAY
    /\ now' = now + BACKOFF_DELAY
    /\ faults' = 0
    /\ UNCHANGED <<connections, connectionInfo, orderRooms, socket, nextConn,
                   heartbeat, garbled, unsubscribed, lastPub>>
    /\ UNCHANGED <<attempts, concurrency, nextId, order, history, executions, job,
                   inflight, op, published, quoteLogs, failedAt, request, reply,
                   returnvalue>>
    /\ UNCHANGED routerVars

\* The queue moves a delayed job back to the wait list once its backoff delay
\* has passed since the failure.
PromoteDelayed(o) ==
    /\ job[o].state = "delayed"
    /\ now >= failedAt[o] + BackoffDelay(job[o].attemptsMade)
    /\ BackoffElapsed(o)

\* One order's job on the queue's clock, with up to MaxAttempts + 1 attempts
\* configured.
BackoffInit ==
    /\ attempts \in 1..(MaxAttempts + 1)
    /\ concurrency \in 1..MaxConcurrency
    /\ EngineInit
    /\ HubInit
    /\ RouterInit

BackoffNext ==
    \/ nextId = 0 /\ AddOrderCreate
    \/ ClockTick
    \/ \E o \in OrderIds :
          \/ AddOrderEnqueue(o)
          \/ Dispatch(o)
          \/ ProcessOrder(o)
          \/ PromoteDelayed(o)

BackoffSpec == BackoffInit /\ [][BackoffNext]_vars

\* The step puts order o's delayed job back on the wait list.
RetryScheduled(o) == job[o].state = "delayed" /\ job'[o].state = "waiting"

\* C30: a job is delayed only after its k-th failed attempt with k below the
\* configured attempts, and it is put back on the wait list no earlier than
\* 1000 * 2^(k-1) ms after that failure: 1000 ms after the first, 2000 ms
\* after the second, 4000 ms after the third.
C30_BackoffDoubles ==
    [][\A o \in OrderIds :
          /\ job'[o].state = "delayed" =>
               (job'[o].attemptsMade >= 1 /\ job'[o].attemptsMade < attempts)
          /\ RetryScheduled(o) =>
               /\ now - failedAt[o] >= 1000 * 2 ^ (job[o].attemptsMade - 1)
               /\ job[o].attemptsMade = 1 => now - failedAt[o] >= 1000
               /\ job[o].attemptsMade = 2 => now - failedAt[o] >= 2000
               /\ job[o].attemptsMade = 3 => now - failedAt[o] >= 4000]_vars

\* C30 witness: with three attempts configured, the job failed a second time
\* one second after the start and is back on the wait list two seconds
\* after that failure.
C30_Witness ==
    /\ attempts = 3
    /\ job[1] = [state |-> "waiting", attemptsMade |-> 2]
    /\ failedAt[1] = 1000
    /\ now = 3000

\* ------------------------------------------------ properties of the ties
\* The providers that quoted the largest estimatedOutput of the last call.
BestQuoted ==
    {i \in Quoted : \A j \in Quoted :
                       adapters[j].estimatedOutput <= adapters[i].estimatedOutput}

\* C31: when several providers quote the same largest estimatedOutput,
\* findBestRoute selects the quote of the one registered first (RAYDIUM before
\* METEORA): the selected venue is that of the lowest-numbered provider among
\* those with the largest estimatedOutput.
C31_TieGoesToFirstRegistered ==
    route.kind = "ok" =>
        \E i \in BestQuoted :
            /\ \A j \in BestQuoted : i <= j
            /\ route.selectedDex = Providers[i]
            /\ route.selectedQuote = QuoteOf(i)

\* C31 witness: both providers quoted the same estimatedOutput and RAYDIUM
\* was selected.
C31_Witness ==
    /\ route.kind = "ok"
    /\ Quoted = {1, 2}
    /\ adapters[1].estimatedOutput = adapters[2].estimatedOutput
    /\ route.selectedDex = "RAYDIUM"

\* ------------------------------------------------- the hub's two indexes
\* socket.on('error'): handleDisconnect; the socket's close event follows.
ErrorEvent(c) ==
    /\ socket[c] = "open"
    /\ SetHub([HandleDisconnect(Hub, c) EXCEPT !.socket[c] = "closing"])
    /\ unsubscribed' = StillKnown(HandleDisconnect(Hub, c))
    /\ garbled' = GarbledKnown(HandleDisconnect(Hub, c))
    /\ lastPub' = NoPub
    /\ UNCHANGED <<nextConn, heartbeat, now>>
    /\ UNCHANGED <<engineVars, routerVars>>

\* Everything that touches the connection maps and the rooms: connect,
\* subscribe and unsubscribe messages about orders and pings, close and error
\* events, the heartbeat and shutdown. An unsubscription is observed only if
\* the connection was a member of the room.
RoomsNext ==
    \/ HandleConnection
    \/ \E c \in ConnIds : \E m \in Messages :
         /\ m.orderId # Wildcard
         /\ m.type \in {"subscribe", "unsubscribe", "ping"}
         /\ HandleMessage(c, m)
         /\ garbled' = <<>>
         /\ unsubscribed' \in {unsubscribed, <<>>} \/ c \in Room(orderRooms, m.orderId)
    \/ \E c \in ConnIds : SocketClosing(c)
    \/ \E c \in ConnIds : CloseEvent(c)
    \/ \E c \in ConnIds : ErrorEvent(c)
    \/ Sweep
    \/ Shutdown

RoomsSpec == ComponentInit /\ [][RoomsNext]_vars

\* C32: no room of the orderRooms map is empty, in every reachable state of
\* the hub: a room whose last member left has been deleted from the map.
C32_NoEmptyRoom ==
    \A t \in DOMAIN orderRooms : orderRooms[t] # {}

\* C32 witness: connection 1, still registered, was a member of the room of
\* order 1 and unsubscribed; nobody is left in that room and the map no longer
\* holds it.
C32_Witness ==
    /\ unsubscribed = <<1, 1>>
    /\ 1 \in connections
    /\ nextConn = 2
    /\ 1 \notin DOMAIN orderRooms

\* --------------------------------------------- properties of the history
\* The history of order o before the step is a prefix of its history after.
HistoryKept(o) ==
    /\ Len(history'[o]) >= Len(history[o])
    /\ SubSeq(history'[o], 1, Len(history[o])) = history[o]

RoomMembers(rooms) == UNION {rooms[t] : t \in DOMAIN rooms}

\* The connections registered in both maps.
Registered == connections \cap InfoKeys(Hub)

\* C34: every member of a room is a registered connection, after every step;
\* a connection that is not registered stays out of every room and out of the
\* connectionInfo map whatever message of it is handled, and while no
\* connection is registered the handling of a message changes none of the maps.
C34_RoomMembersRegistered ==
    [][/\ RoomMembers(orderRooms') \subseteq Registered'
       /\ \A c \in ConnIds :
            (c \notin Registered /\ socket'[c] = socket[c]) =>
                /\ c \notin Registered'
                /\ c \notin RoomMembers(orderRooms')
       /\ (Registered = {} /\ nextConn' = nextConn) =>
            <<connections, connectionInfo, orderRooms>>'
               = <<connections, connectionInfo, orderRooms>>]_vars

\* C34 witness: connection 1 was deregistered while its socket is still
\* closing, so that its messages can still arrive; connection 2 is a member of
\* the room of order 1 and connection 1 is not.
C34_Witness ==
    /\ socket[1] = "closing"
    /\ connectionInfo[1] = NoInfo
    /\ 1 \notin connections
    /\ 1 \in DOMAIN orderRooms
    /\ orderRooms[1] = {2}

\* getStats, totalSubscriptions: the sizes of the subscribedOrders sets of the
\* connections `ids`, added up.
RECURSIVE TotalSubscriptions(_, _)
TotalSubscriptions(info, ids) ==
    IF ids = {} THEN 0
    ELSE LET c == CHOOSE x \in ids : TRUE
         IN Cardinality(info[c].subscribedOrders)
              + TotalSubscriptions(info, ids \ {c})

\* The sizes of the rooms `ts`, added up.
RECURSIVE TotalMembership(_, _)
TotalMembership(rooms, ts) ==
    IF ts = {} THEN 0
    ELSE LET t == CHOOSE x \in ts : TRUE
         IN Cardinality(rooms[t]) + TotalMembership(rooms, ts \ {t})

\* C35: the two subscription indexes agree: connection c is a member of the
\* room of topic t exactly when t is in c's own subscribedOrders, and the
\* subscription counts of the connections add up to the sizes of the rooms.
C35_IndexesAgree ==
    /\ \A c \in ConnIds : \A t \in Topics :
          c \in Room(orderRooms, t) <=> t \in connectionInfo[c].subscribedOrders
    /\ TotalSubscriptions(connectionInfo, InfoKeys(Hub))
          = TotalMembership(orderRooms, DOMAIN orderRooms)

\* C35 witness: both connections were members of the room of order 1 and
\* connection 1 unsubscribed: the room and the subscription sets hold
\* connection 2 only.
C35_Witness ==
    /\ unsubscribed = <<1, 1>>
    /\ connections = {1, 2}
    /\ 1 \in DOMAIN orderRooms
    /\ orderRooms[1] = {2}
    /\ connectionInfo[1].subscribedOrders = {}
    /\ connectionInfo[2].subscribedOrders = {1}

\* ------------------------------------------- properties of retryOrder
\* C36: retryOrder goes past findById only for a FAILED order; its
\* updateStatus sets that order to PENDING and appends a PENDING history row;
\* its addOrder then puts a job for that same order id back in the queue and
\* creates no other order.
C36_RetryRequeuesSameOrder ==
    [][\A o \in OrderIds :
          /\ (op[o] = "none" /\ op'[o] = "retryReset") => order[o].status = "FAILED"
          /\ (op[o] = "retryReset" /\ op'[o] = "retryAdd") =>
               /\ order'[o].status = "PENDING"
               /\ history'[o] = Append(history[o], "PENDING")
          /\ (op[o] = "retryAdd" /\ op'[o] # "retryAdd") =>
               /\ nextId' = nextId
               /\ (op'[o] = "enqueue" \/ job'[o].state = "waiting")]_vars

\* ------------------------------------------ properties of orders and jobs
\* The statuses from which an order is still to be processed.
NonTerminal == {"PENDING", "ROUTING", "BUILDING", "SUBMITTED"}

\* C37: while no service request is between two of its awaits, every order in
\* a non-terminal status has a job for its order id that is waiting, delayed
\* or active.
C37_NonTerminalOrderHasJob ==
    (\A p \in OrderIds : op[p] = "none") =>
        \A o \in OrderIds :
            order[o].status \in NonTerminal =>
                job[o].state \in {"waiting", "delayed", "active"}

\* ------------------------------------------- properties of the delivery
\* The copies of the last published update that connection c was sent.
CopiesSent(c) ==
    Cardinality({i \in 1..Len(lastPub.copies) : lastPub.copies[i] = c})

\* C38: one publish sends each connection at most one copy of the update,
\* also a connection that is subscribed both to the order id and to the
\* wildcard topic; the connections reached are those that were sent a copy.
C38_AtMostOneCopy ==
    JustPublished =>
        /\ \A c \in ConnIds : CopiesSent(c) <= 1
        /\ \A c \in ConnIds : c \in lastPub.sent <=> CopiesSent(c) = 1

\* C38 witness: an update for an order was published to a connection that is
\* subscribed to that order and to the wildcard topic, and the connection was
\* sent one copy.
C38_Witness ==
    /\ JustPublished
    /\ \E c \in connections :
         /\ {lastPub.orderId, Wildcard} \subseteq connectionInfo[c].subscribedOrders
         /\ c \in lastPub.sent
         /\ CopiesSent(c) = 1

\* ------------------------------------- properties of the confirmations
\* The worker on the orders that have a topic, next to clients that connect
\* and subscribe to these orders and unsubscribe, with the confirmations the
\* hub sends.
ConfirmNext ==
    \/ nextId < MaxTopics /\ AddOrderCreate
    \/ \E o \in OrderTopics :
         \/ AddOrderEnqueue(o)
         \/ Dispatch(o)
         \/ ProcessOrder(o)
    \/ HandleConnection
    \/ \E c \in ConnIds : \E m \in Messages :
         /\ m.orderId \in OrderTopics
         /\ HandleMessageConfirming(c, m)
         /\ unsubscribed' = <<>>
         /\ garbled' = <<>>

ConfirmSpec == Init /\ [][ConfirmNext]_vars

\* C39: an order-update the hub sends for order id o carries a status that
\* order o has held: the order exists, and a status of PENDING is sent only
\* while the order is still PENDING, so that a client never sees an order go
\* back to PENDING by subscribing to it.
C39_UpdateCarriesHeldStatus ==
    lastPub.confirmation # <<>> =>
        /\ lastPub.confirmation[2] \in OrderIds
        /\ order[lastPub.confirmation[2]].status # "NONE"
        /\ lastPub.confirmation[3] = "PENDING" =>
             order[lastPub.confirmation[2]].status = "PENDING"

\* --------------------------------------------------------- simulateOrder
\* A variant of the reduce callback that lets a later quote with the same
\* estimatedOutput replace the best one.
KeepBestOrEqual(best, current) ==
    IF current.estimatedOutput >= best.estimatedOutput THEN current ELSE best

\* (best, current) => current.estimatedOutput > best.estimatedOutput ? current : best
KeepBest(best, current) ==
    IF current.estimatedOutput > best.estimatedOutput THEN current ELSE best

\* quotes.reduce(callback), from the first quote on, left to right.
RECURSIVE Reduce(_, _)
Reduce(best, rest) ==
    IF rest = <<>> THEN best
    ELSE Reduce(KeepBest(best, Head(rest)), Tail(rest))

\* simulateOrder on the quotes getAllQuotes returned.
SimulateOrderOf(qs) ==
    IF Len(qs) = 0
    THEN [success |-> FALSE, error |-> NoQuotesError,
          estimatedOutput |-> 0, selectedDex |-> NULL]
    ELSE [success |-> TRUE, error |-> NULL,
          estimatedOutput |-> Reduce(Head(qs), Tail(qs)).estimatedOutput,
          selectedDex |-> Reduce(Head(qs), Tail(qs)).dex]

\* The lists of up to MaxQuotes quotes.
QuoteLists ==
    UNION {[1..n -> [dex : {Providers[i] : i \in 1..Len(Providers)},
                     estimatedOutput : 1..MaxOutput]] : n \in 0..MaxQuotes}

\* Some list of quotes has come back from getAllQuotes.
SimulationInit ==
    /\ attempts = MaxAttempts
    /\ concurrency = MaxConcurrency
    /\ EngineInit
    /\ HubInit
    /\ adapters = <<>>
    /\ quotes \in QuoteLists
    /\ route = [kind |-> "none"]

\* findBestRoute goes on with the quotes.
FindBestRouteOnQuotes ==
    /\ route.kind = "none"
    /\ route' = FindBestRouteOf(quotes)
    /\ UNCHANGED <<adapters, quotes>>
    /\ UNCHANGED <<engineVars, hubVars>>

SimulationNext == FindBestRouteOnQuotes

SimulationSpec == SimulationInit /\ [][SimulationNext]_vars

\* C40: for every list of quotes, simulateOrder chooses the venue that
\* findBestRoute selects for the same list, with the same estimatedOutput, ties
\* included; and it reports failure exactly when findBestRoute throws.
C40_SimulationAgreesWithRouting ==
    /\ route.kind = "ok" =>
         /\ SimulateOrderOf(quotes).success
         /\ SimulateOrderOf(quotes).selectedDex = route.selectedDex
         /\ SimulateOrderOf(quotes).estimatedOutput = route.selectedQuote.estimatedOutput
    /\ route.kind = "error" =>
         /\ ~SimulateOrderOf(quotes).success
         /\ SimulateOrderOf(quotes).error = route.message

\* C40 witness: of three quotes the second and the third tie for the largest
\* estimatedOutput, at different venues, and the venue of the second was
\* selected.
C40_Witness ==
    /\ route.kind = "ok"
    /\ Len(quotes) = 3
    /\ quotes[1].estimatedOutput < quotes[2].estimatedOutput
    /\ quotes[2].estimatedOutput = quotes[3].estimatedOutput
    /\ quotes[2].dex # quotes[3].dex
    /\ route.selectedDex = quotes[2].dex
====
